---- MODULE Spec2Model ----
(***************************************************************************)
(* A model of honeypot.py: the per-connection session engine               *)
(* (handle_client), the command resolution pipeline (get_command_output,   *)
(* handle_local_command, call_llm_for_command), the path handling          *)
(* (normalize_dir, update_state) and the session log (log_session).        *)
(*                                                                         *)
(* Python strings are TLA+ strings; TLC evaluates Len, Head, Tail, SubSeq  *)
(* and \o on them.  One character is a string of length 1.                 *)
(***************************************************************************)
EXTENDS Integers, Sequences, FiniteSets, Bags, TLC

(***************************************************************************)
(* Python's str and posixpath operations, as the interpreter computes them *)
(* on the characters that occur in this model.                             *)
(***************************************************************************)

Char(s, i) == SubSeq(s, i, i)

\* The whitespace str.strip() and str.split() remove, among the characters used here.
Whitespace == {" ", "\t", "\n", "\r"}

RECURSIVE lstrip(_)
lstrip(s) ==
    IF s # "" /\ Head(s) \in Whitespace THEN lstrip(Tail(s)) ELSE s

RECURSIVE rstrip(_)
rstrip(s) ==
    IF s # "" /\ Char(s, Len(s)) \in Whitespace
    THEN rstrip(SubSeq(s, 1, Len(s) - 1))
    ELSE s

\* str.strip()
strip(s) == rstrip(lstrip(s))

UpperLetters == "ABCDEFGHIJKLMNOPQRSTUVWXYZ"

LowerLetters == "abcdefghijklmnopqrstuvwxyz"

lower_char(c) ==
    IF \E i \in 1..Len(UpperLetters) : Char(UpperLetters, i) = c
    THEN Char(LowerLetters, CHOOSE i \in 1..Len(UpperLetters) : Char(UpperLetters, i) = c)
    ELSE c

RECURSIVE lower(_)
\* str.lower()
lower(s) == IF s = "" THEN "" ELSE lower_char(Head(s)) \o lower(Tail(s))

\* str.startswith(p)
startswith(s, p) == Len(s) >= Len(p) /\ SubSeq(s, 1, Len(p)) = p

\* str.endswith(p)
endswith(s, p) == Len(s) >= Len(p) /\ SubSeq(s, Len(s) - Len(p) + 1, Len(s)) = p

\* The least index of s that holds a character of set cs, or 0.
find_first(s, cs) ==
    IF \E i \in 1..Len(s) : Char(s, i) \in cs
    THEN CHOOSE i \in 1..Len(s) :
            Char(s, i) \in cs /\ \A j \in 1..(i - 1) : Char(s, j) \notin cs
    ELSE 0

\* str.split(maxsplit=1): the first whitespace-delimited word, and the rest
\* with its leading whitespace removed (if there is any rest).
split_maxsplit1(s) ==
    LET t == lstrip(s)
        i == find_first(t, Whitespace)
    IN  IF t = "" THEN <<>>
        ELSE IF i = 0 THEN <<t>>
        ELSE LET rest == lstrip(SubSeq(t, i, Len(t)))
             IN  IF rest = "" THEN <<SubSeq(t, 1, i - 1)>>
                 ELSE <<SubSeq(t, 1, i - 1), rest>>

\* str.split(" ", 1): cut at the first single space.
split_space1(s) ==
    LET i == find_first(s, {" "})
    IN  IF i = 0 THEN <<s>>
        ELSE <<SubSeq(s, 1, i - 1), SubSeq(s, i + 1, Len(s))>>

RECURSIVE split_slash(_)
\* str.split("/")
split_slash(s) ==
    LET i == find_first(s, {"/"})
    IN  IF i = 0 THEN <<s>>
        ELSE <<SubSeq(s, 1, i - 1)>> \o split_slash(SubSeq(s, i + 1, Len(s)))

RECURSIVE join_slash(_)
\* "/".join(comps)
join_slash(comps) ==
    IF comps = <<>> THEN ""
    ELSE IF Len(comps) = 1 THEN comps[1]
    ELSE comps[1] \o "/" \o join_slash(Tail(comps))

\* posixpath.normpath: 0, 1 or 2 leading slashes are kept (two only when the
\* path starts with exactly two).
initial_slashes(path) ==
    IF ~startswith(path, "/") THEN 0
    ELSE IF startswith(path, "//") /\ ~startswith(path, "///") THEN 2
    ELSE 1

RECURSIVE norm_comps_DotDotAboveRoot(_, _, _)
\* norm_comps keeping a `..` that has nothing before it, under a root too.
norm_comps_DotDotAboveRoot(comps, new_comps, slashes) ==
    IF comps = <<>> THEN new_comps
    ELSE LET comp == Head(comps)
             n == Len(new_comps)
         IN  IF comp \in {"", "."}
                  THEN norm_comps_DotDotAboveRoot(Tail(comps), new_comps, slashes)
             ELSE IF comp # ".." \/ n = 0 \/ (n > 0 /\ new_comps[n] = "..")
                  THEN norm_comps_DotDotAboveRoot(Tail(comps), Append(new_comps, comp), slashes)
             ELSE norm_comps_DotDotAboveRoot(Tail(comps), SubSeq(new_comps, 1, n - 1), slashes)

RECURSIVE norm_comps(_, _, _)
\* The loop of posixpath.normpath over the components.
norm_comps(comps, new_comps, slashes) ==
    IF comps = <<>> THEN new_comps
    ELSE LET comp == Head(comps)
             n == Len(new_comps)
         IN  IF comp \in {"", "."} THEN norm_comps(Tail(comps), new_comps, slashes)
             ELSE IF comp # ".." \/ (slashes = 0 /\ n = 0) \/ (n > 0 /\ new_comps[n] = "..")
                  THEN norm_comps(Tail(comps), Append(new_comps, comp), slashes)
             ELSE IF n > 0
                  THEN norm_comps(Tail(comps), SubSeq(new_comps, 1, n - 1), slashes)
             ELSE norm_comps(Tail(comps), new_comps, slashes)

\* posixpath.normpath(path)
normpath(path) ==
    IF path = "" THEN "."
    ELSE LET slashes == initial_slashes(path)
             joined == join_slash(norm_comps(split_slash(path), <<>>, slashes))
             lead == IF slashes = 2 THEN "//" ELSE IF slashes = 1 THEN "/" ELSE ""
             res == lead \o joined
         IN  IF res = "" THEN "." ELSE res

\* posixpath.join(a, b)
posix_join(a, b) ==
    IF startswith(b, "/") THEN b
    ELSE IF a = "" \/ endswith(a, "/") THEN a \o b
    ELSE a \o "/" \o b

(***************************************************************************)
(* Path / state handling                                                   *)
(***************************************************************************)

normalize_dir(path) ==
    IF path = "" THEN "/"
    ELSE LET n0 == normpath(path)
             n1 == IF n0 = "." THEN "/" ELSE n0
         IN  IF n1 # "/" /\ ~endswith(n1, "/") THEN n1 \o "/" ELSE n1

\* update_state with an empty target (or `~`) leaving the directory as it is.
update_state_EmptyTargetStays(command, current_dir) ==
    LET cmd == strip(command)
    IN  IF cmd = "cd" \/ startswith(cmd, "cd ")
        THEN LET parts == split_maxsplit1(cmd)
                 target == IF Len(parts) > 1 THEN parts[2] ELSE ""
             IN  IF target = "" \/ target = "~" THEN current_dir
                 ELSE IF startswith(target, "/") THEN normalize_dir(target)
                 ELSE normalize_dir(posix_join(current_dir, target))
        ELSE current_dir

update_state(command, current_dir) ==
    LET cmd == strip(command)
    IN  IF cmd = "cd" \/ startswith(cmd, "cd ")
        THEN LET parts == split_maxsplit1(cmd)
                 target == IF Len(parts) > 1 THEN parts[2] ELSE ""
             IN  IF target = "" \/ target = "~" THEN "/"
                 ELSE IF startswith(target, "/") THEN normalize_dir(target)
                 ELSE normalize_dir(posix_join(current_dir, target))
        ELSE current_dir

(***************************************************************************)
(* Local command handlers.  A handler's result is None (not handled) or    *)
(* Some(text); the text may be empty.                                      *)
(***************************************************************************)

None == <<>>

Some(text) == <<text>>

UnameOutput == "Linux server-dev-01 4.19.0-21-amd64 #1 SMP Debian 9 x86_64 GNU/Linux\n"

IdOutput == "uid=1000(user) gid=1000(user) groups=1000(user)\n"

RootListing == "bin\nboot\ndev\netc\nhome\nlib\nproc\nroot\nrun\nsbin\ntmp\nusr\nvar\n"

PasswdContents == "root:x:0:0:root:/root:/bin/bash\nuser:x:1000:1000:User,,,:/home/user:/bin/bash\n"

HelpOutput == "Supported (simulated) commands: cd, pwd, ls, whoami, id, uname, cat, echo\n"

\* The ls branch's choice of listing (lines 214-228).
ls_output(cmd, cur) ==
    LET tokens == split_maxsplit1(cmd)
        target == IF Len(tokens) > 1 THEN strip(tokens[2]) ELSE cur
        target_norm == IF ~startswith(target, "/")
                       THEN normalize_dir(posix_join(cur, target))
                       ELSE normalize_dir(target)
    IN  IF target_norm = "/" THEN RootListing
        ELSE IF endswith(target_norm, "home/") THEN "user\n"
        ELSE "file.txt\n"

\* The cat branch's output (lines 233-239).
cat_output(cmd) ==
    LET target == split_maxsplit1(cmd)[2]
    IN  IF target \in {"/etc/passwd", "etc/passwd"} THEN PasswdContents
        ELSE IF target \in {"/etc/hostname", "etc/hostname"} THEN "server-dev-01\n"
        ELSE "cat: " \o target \o ": No such file or directory\n"

\* handle_local_command(command, session_state): the value returned and the
\* session state it leaves.
handle_local_command(command, current_dir, command_history) ==
    LET cmd == strip(command)
        cmd_lower == lower(cmd)
        cur == current_dir
        appended == Append(command_history, cmd)
        Result(ret, dir, hist) ==
            [ret |-> ret, current_dir |-> dir, command_history |-> hist]
    IN  IF cmd = "cd" \/ startswith(cmd_lower, "cd ")
            THEN Result(Some(""), update_state(cmd, cur), appended)
        ELSE IF cmd_lower = "pwd"
            THEN Result(Some(cur \o "\n"), cur, appended)
        ELSE IF cmd_lower = "whoami"
            THEN Result(Some("user\n"), cur, appended)
        ELSE IF cmd_lower = "id"
            THEN Result(Some(IdOutput), cur, appended)
        ELSE IF startswith(cmd_lower, "uname")
            THEN Result(Some(UnameOutput), cur, appended)
        ELSE IF startswith(cmd_lower, "ls")
            THEN Result(Some(ls_output(cmd, cur)), cur, appended)
        ELSE IF startswith(cmd_lower, "cat ")
            THEN Result(Some(cat_output(cmd)), cur, appended)
        ELSE IF startswith(cmd_lower, "echo ")
            THEN Result(Some(split_space1(cmd)[2] \o "\n"), cur, appended)
        ELSE IF cmd_lower \in {"help", "--help", "-h"}
            THEN Result(Some(HelpOutput), cur, appended)
        ELSE Result(None, cur, command_history)

(***************************************************************************)
(* Encodings at the socket and at the session log                          *)
(***************************************************************************)

\* In received data, this character stands for a byte that is not valid
\* UTF-8 (such as 0xff); every other character stands for its ASCII byte.
InvalidByte == "#"

RECURSIVE decode(_)
\* data.decode("utf-8", errors="ignore"): invalid bytes are dropped.
decode(data) ==
    IF data = "" THEN ""
    ELSE IF Head(data) = InvalidByte THEN decode(Tail(data))
    ELSE Head(data) \o decode(Tail(data))

\* The UTF-8 bytes of one character; the texts of this model are ASCII, whose
\* encoding is the one byte of the same code.
utf8_bytes(c) == c

RECURSIVE encode(_)
\* str.encode("utf-8")
encode(s) == IF s = "" THEN "" ELSE utf8_bytes(Head(s)) \o encode(Tail(s))

json_char(c) ==
    CASE c = "\"" -> "\\\""
      [] c = "\\" -> "\\\\"
      [] c = "\n" -> "\\n"
      [] c = "\r" -> "\\r"
      [] c = "\t" -> "\\t"
      [] OTHER -> c

RECURSIVE json_string_body(_)
json_string_body(s) ==
    IF s = "" THEN "" ELSE json_char(Head(s)) \o json_string_body(Tail(s))

RECURSIVE json_items(_)
json_items(list) ==
    IF list = <<>> THEN ""
    ELSE IF Len(list) = 1 THEN "\"" \o json_string_body(list[1]) \o "\""
    ELSE "\"" \o json_string_body(list[1]) \o "\", " \o json_items(Tail(list))

\* json.dumps(commands, ensure_ascii=True) of a list of ASCII strings
json_dumps(list) == "[" \o json_items(list) \o "]"

(***************************************************************************)
(* Bounds and inputs                                                       *)
(***************************************************************************)

\* The number of recv calls of one session that return data.
MaxChunks == 2

\* The largest max_retries call_llm_for_command is checked with.
MaxAttemptsBound == 4

\* max_retries=3, the default get_command_output calls with.
DefaultMaxRetries == 3

\* backoff = 0.5 seconds, in milliseconds.
InitialBackoff == 500

\* What a peer may send in one chunk.
Chunks ==
    { "cd /home\n", "cd ..\n", "cd home\n", "CD /home\n", "cd //\n", "cd\n",
      "pwd\n", "ls\n", "lsblk\n", "echo hi\n", "zzz\n", "CD\n", "\n", " #\n",
      "whoami\n", "id\n", "uname -a\n", "cat /etc/passwd\n", "help\n" }

\* What the backend may answer with when it answers: empty, blank, or a text.
BackendTexts == { "", " \n", "ok", " two words \n" }

Banner == "SSH-2.0-OpenSSH_8.2p1 Ubuntu-4ubuntu0.5\n"

\* prompt = f"user@server-dev-01:{session_state['current_dir']}$ "
Prompt(dir) == "user@server-dev-01:" \o dir \o "$ "

\* f"bash: {command}: command not found\n"
NotFound(cmd) == "bash: " \o cmd \o ": command not found\n"

(***************************************************************************)
(* State                                                                   *)
(***************************************************************************)

VARIABLES
    gemini,           \* "none": GEMINI_AVAILABLE is False; "new": a google.genai
                      \* Client; "old": the google.generativeai module
    pc,               \* where handle_client is
    current_dir,      \* session_state["current_dir"]
    command_history,  \* session_state["command_history"]
    command,          \* handle_client's command
    output,           \* handle_client's output
    local,            \* get_command_output's local
    sent,             \* the data sendall delivered to the peer, in order
    recvs,            \* the number of recv calls that returned data
    sock_open,        \* client_socket has not been closed
    log_calls,        \* the session_data of every log_session call
    db,               \* the rows of table sessions
    max_retries,      \* call_llm_for_command's max_retries
    attempt,          \* its loop variable
    backoff,          \* its backoff, in milliseconds
    delays,           \* the time.sleep calls it made, in order
    requests,         \* the number of generate_content calls it made
    text,             \* its text: the last response's text
    llm_out,          \* the value it returned
    listening,        \* start_honeypot is in its accept loop
    others            \* what every other handle_client thread holds: a bag

session_vars == <<current_dir, command_history>>

llm_vars == <<max_retries, attempt, backoff, delays, requests, text, llm_out>>

io_vars == <<sent, recvs, sock_open, log_calls, db>>

server_vars == <<listening, others>>

vars == <<gemini, pc, current_dir, command_history, command, output, local,
          sent, recvs, sock_open, log_calls, db,
          max_retries, attempt, backoff, delays, requests, text, llm_out,
          listening, others>>

\* What handle_client and the calls it makes hold per thread, as the thread
\* starts (lines 384-389).
FreshContext ==
    [ pc |-> "banner", current_dir |-> "/", command_history |-> <<>>,
      command |-> "", output |-> "", local |-> None, sent |-> <<>>,
      recvs |-> 0, sock_open |-> TRUE, log_calls |-> <<>>,
      max_retries |-> DefaultMaxRetries, attempt |-> 0,
      backoff |-> InitialBackoff, delays |-> <<>>, requests |-> 0,
      text |-> "", llm_out |-> None ]

\* handle_client lines 384-389: a fresh session, nothing sent yet.
Init ==
    /\ gemini \in {"none", "new", "old"}
    /\ pc = "banner"
    /\ current_dir = "/"
    /\ command_history = <<>>
    /\ command = ""
    /\ output = ""
    /\ local = None
    /\ sent = <<>>
    /\ recvs = 0
    /\ sock_open = TRUE
    /\ log_calls = <<>>
    /\ db = <<>>
    /\ max_retries = DefaultMaxRetries
    /\ attempt = 0
    /\ backoff = InitialBackoff
    /\ delays = <<>>
    /\ requests = 0
    /\ text = ""
    /\ llm_out = None
    /\ listening = TRUE
    /\ others = EmptyBag

(***************************************************************************)
(* handle_client                                                           *)
(***************************************************************************)

\* safe_send with its result ignored: the loop goes on after a failed send.
safe_send_FailureIgnored(data, ok, next_pc) ==
    /\ sent' = IF ok THEN Append(sent, data) ELSE sent
    /\ pc' = next_pc

\* safe_send(sock, data): True and the data delivered, or False.
safe_send(data, ok, next_pc) ==
    IF ok
    THEN /\ sent' = Append(sent, data)
         /\ pc' = next_pc
    ELSE /\ sent' = sent
         /\ pc' = "finally"

\* Line 393: the banner.
SendBanner ==
    /\ pc = "banner"
    /\ \E ok \in BOOLEAN : safe_send(encode(Banner), ok, "prompt")
    /\ UNCHANGED <<gemini, session_vars, command, output, local, recvs,
                   sock_open, log_calls, db, llm_vars>>

\* SendPrompt with the prompt of the directory the session started in.
SendPrompt_StaleDir ==
    /\ pc = "prompt"
    /\ \E ok \in BOOLEAN : safe_send(encode(Prompt("/")), ok, "recv")
    /\ UNCHANGED <<gemini, session_vars, command, output, local, recvs,
                   sock_open, log_calls, db, llm_vars>>

\* Lines 395-397, 414-417 and 429-431: the prompt for the current directory.
SendPrompt ==
    /\ pc = "prompt"
    /\ \E ok \in BOOLEAN : safe_send(encode(Prompt(current_dir)), ok, "recv")
    /\ UNCHANGED <<gemini, session_vars, command, output, local, recvs,
                   sock_open, log_calls, db, llm_vars>>

\* SendOutput with the loop going back to recv without the prompt.
SendOutput_SkipsPrompt ==
    /\ pc = "output"
    /\ \E ok \in BOOLEAN : safe_send(encode(output), ok, "recv")
    /\ UNCHANGED <<gemini, session_vars, command, output, local, recvs,
                   sock_open, log_calls, db, llm_vars>>

\* Lines 424-426: the output, when it is not empty.
SendOutput ==
    /\ pc = "output"
    /\ \E ok \in BOOLEAN : safe_send(encode(output), ok, "prompt")
    /\ UNCHANGED <<gemini, session_vars, command, output, local, recvs,
                   sock_open, log_calls, db, llm_vars>>

\* Lines 402-405: recv returned no data, the peer closed the connection.
RecvClosed ==
    /\ pc = "recv"
    /\ pc' = "finally"
    /\ UNCHANGED <<gemini, session_vars, command, output, local, io_vars, llm_vars>>

\* Lines 402 and 433-439: recv raised (ConnectionResetError or another error).
RecvError ==
    /\ pc = "recv"
    /\ pc' = "finally"
    /\ UNCHANGED <<gemini, session_vars, command, output, local, io_vars, llm_vars>>

\* The locals of call_llm_for_command before its loop (lines 270-275).
llm_start ==
    /\ max_retries' = DefaultMaxRetries
    /\ attempt' = 1
    /\ backoff' = InitialBackoff
    /\ delays' = <<>>
    /\ requests' = 0
    /\ text' = ""
    /\ llm_out' = None

\* No call of call_llm_for_command is in progress.
llm_idle ==
    /\ max_retries' = DefaultMaxRetries
    /\ attempt' = 0
    /\ backoff' = InitialBackoff
    /\ delays' = <<>>
    /\ requests' = 0
    /\ text' = ""
    /\ llm_out' = None

\* get_command_output with the fallback recording the command in the history.
get_command_output_LogsFallback(cmd) ==
    LET r == handle_local_command(cmd, current_dir, command_history)
    IN  /\ local' = r.ret
        /\ current_dir' = r.current_dir
        /\ IF r.ret # None
           THEN /\ output' = r.ret[1]
                /\ command_history' = r.command_history
                /\ pc' = IF r.ret[1] # "" THEN "output" ELSE "prompt"
                /\ llm_idle
           ELSE IF gemini = "none"
           THEN /\ output' = NotFound(cmd)
                /\ command_history' = Append(r.command_history, cmd)
                /\ pc' = "output"
                /\ llm_idle
           ELSE /\ output' = output
                /\ command_history' = r.command_history
                /\ pc' = "llm"
                /\ llm_start

\* get_command_output lines 347-353 and, with no backend, 359-361.
get_command_output(cmd) ==
    LET r == handle_local_command(cmd, current_dir, command_history)
    IN  /\ local' = r.ret
        /\ current_dir' = r.current_dir
        /\ command_history' = r.command_history
        /\ IF r.ret # None
           THEN /\ output' = r.ret[1]
                /\ pc' = IF r.ret[1] # "" THEN "output" ELSE "prompt"
                /\ llm_idle
           ELSE IF gemini = "none"
           THEN /\ output' = NotFound(cmd)
                /\ pc' = "output"
                /\ llm_idle
           ELSE /\ output' = output
                /\ pc' = "llm"
                /\ llm_start

\* RecvData without lines 412-417: an empty command goes to the pipeline.
RecvData_EmptyToPipeline ==
    /\ pc = "recv"
    /\ recvs < MaxChunks
    /\ \E data \in Chunks :
        LET cmd == strip(decode(data))
        IN  /\ command' = cmd
            /\ get_command_output(cmd)
    /\ recvs' = recvs + 1
    /\ UNCHANGED <<gemini, sent, sock_open, log_calls, db>>

\* Lines 402-421: recv returned data; the command is decoded and trimmed, an
\* empty one only gets the prompt again, any other goes to the pipeline.
RecvData ==
    /\ pc = "recv"
    /\ recvs < MaxChunks
    /\ \E data \in Chunks :
        LET cmd == strip(decode(data))
        IN  /\ command' = cmd
            /\ IF cmd = ""
               THEN /\ pc' = "prompt"
                    /\ local' = None
                    /\ llm_idle
                    /\ UNCHANGED <<session_vars, output>>
               ELSE get_command_output(cmd)
    /\ recvs' = recvs + 1
    /\ UNCHANGED <<gemini, sent, sock_open, log_calls, db>>

\* HandlingError with the exception leaving handle_client past the session log.
HandlingError_SkipsLog ==
    /\ pc = "recv"
    /\ recvs < MaxChunks
    /\ \E data \in Chunks :
        /\ strip(decode(data)) # ""
        /\ command' = strip(decode(data))
    /\ recvs' = recvs + 1
    /\ pc' = "close"
    /\ UNCHANGED <<gemini, session_vars, output, local, sent, sock_open,
                   log_calls, db, llm_vars>>

\* Lines 419 and 436-439: handling the command raised before the pipeline
\* ran (print raises UnicodeEncodeError when stdout cannot encode the
\* command); the handler logs it and leaves the loop.
HandlingError ==
    /\ pc = "recv"
    /\ recvs < MaxChunks
    /\ \E data \in Chunks :
        /\ strip(decode(data)) # ""
        /\ command' = strip(decode(data))
    /\ recvs' = recvs + 1
    /\ pc' = "finally"
    /\ UNCHANGED <<gemini, session_vars, output, local, sent, sock_open,
                   log_calls, db, llm_vars>>

(***************************************************************************)
(* call_llm_for_command: one action per iteration of its retry loop        *)
(***************************************************************************)

\* The loop goes on to the next attempt, or ends and line 335 returns None.
next_attempt ==
    IF attempt < max_retries
    THEN /\ attempt' = attempt + 1
         /\ pc' = "llm"
         /\ llm_out' = llm_out
    ELSE /\ attempt' = attempt
         /\ pc' = "llm_ret"
         /\ llm_out' = None

\* on_exception sleeping after every failed attempt, the last one too.
on_exception_SleepsAfterLast ==
    /\ delays' = Append(delays, backoff)
    /\ backoff' = backoff * 2
    /\ IF attempt < max_retries
       THEN /\ attempt' = attempt + 1
            /\ pc' = "llm"
            /\ llm_out' = llm_out
       ELSE /\ attempt' = attempt
            /\ pc' = "llm_ret"
            /\ llm_out' = None

\* Lines 322-333: an attempt raised; sleep and double the backoff if an
\* attempt is left, else return None.
on_exception ==
    IF attempt < max_retries
    THEN /\ delays' = Append(delays, backoff)
         /\ backoff' = backoff * 2
         /\ attempt' = attempt + 1
         /\ pc' = "llm"
         /\ llm_out' = llm_out
    ELSE /\ delays' = delays
         /\ backoff' = backoff
         /\ attempt' = attempt
         /\ pc' = "llm_ret"
         /\ llm_out' = None

\* Lines 287-293 raise (a transport error, or reading the response's text
\* raises).  The client of google.genai has no generate_text, so lines
\* 306-320 re-raise to line 322.
LLMRaise ==
    /\ pc = "llm"
    /\ gemini = "new"
    /\ requests' = requests + 1
    /\ on_exception
    /\ UNCHANGED <<gemini, session_vars, command, output, local, io_vars,
                   max_retries, text>>

\* Lines 287-304: the backend answers t.  A text that is not blank is
\* returned trimmed, with a newline; a blank one raises nothing, and the loop
\* goes on without sleeping.
LLMAnswer ==
    /\ pc = "llm"
    /\ gemini = "new"
    /\ requests' = requests + 1
    /\ \E t \in BackendTexts :
        /\ text' = t
        /\ IF t # "" /\ strip(t) # ""
           THEN /\ llm_out' = Some(strip(t) \o "\n")
                /\ pc' = "llm_ret"
                /\ attempt' = attempt
           ELSE next_attempt
    /\ UNCHANGED <<gemini, session_vars, command, output, local, io_vars,
                   max_retries, backoff, delays>>

\* Line 280 with the google.generativeai module as client: it has no
\* models.generate_content, so the attempt calls nothing and raises nothing.
LLMOldClient ==
    /\ pc = "llm"
    /\ gemini = "old"
    /\ next_attempt
    /\ UNCHANGED <<gemini, session_vars, command, output, local, io_vars,
                   max_retries, backoff, delays, requests, text>>

\* LLMReturn without the history entry for a remotely answered command.
LLMReturn_NoAppend ==
    /\ pc = "llm_ret"
    /\ command_history' = command_history
    /\ output' = IF llm_out # None THEN llm_out[1] ELSE NotFound(command)
    /\ pc' = IF output' # "" THEN "output" ELSE "prompt"
    /\ UNCHANGED <<gemini, current_dir, command, local, io_vars, llm_vars>>

\* LLMReturn with the backend's failure told to the peer.
LLMReturn_LeaksFailure ==
    /\ pc = "llm_ret"
    /\ IF llm_out # None
       THEN /\ command_history' = Append(command_history, command)
            /\ output' = llm_out[1]
       ELSE /\ command_history' = command_history
            /\ output' = "[LLM] All attempts failed or returned no usable text.\n"
    /\ pc' = IF output' # "" THEN "output" ELSE "prompt"
    /\ UNCHANGED <<gemini, current_dir, command, local, io_vars, llm_vars>>

\* LLMReturn with the session taken back to the root directory.
LLMReturn_ResetsDir ==
    /\ pc = "llm_ret"
    /\ IF llm_out # None
       THEN /\ command_history' = Append(command_history, command)
            /\ output' = llm_out[1]
       ELSE /\ command_history' = command_history
            /\ output' = NotFound(command)
    /\ current_dir' = "/"
    /\ pc' = IF output' # "" THEN "output" ELSE "prompt"
    /\ UNCHANGED <<gemini, command, local, io_vars, llm_vars>>

\* get_command_output lines 354-361, after call_llm_for_command returned.
LLMReturn ==
    /\ pc = "llm_ret"
    /\ IF llm_out # None
       THEN /\ command_history' = Append(command_history, command)
            /\ output' = llm_out[1]
       ELSE /\ command_history' = command_history
            /\ output' = NotFound(command)
    /\ pc' = IF output' # "" THEN "output" ELSE "prompt"
    /\ UNCHANGED <<gemini, current_dir, command, local, io_vars, llm_vars>>

(***************************************************************************)
(* Finalization: log_session, then the socket is closed                    *)
(***************************************************************************)

\* session_row with the directory the session started in.
session_row_InitialDir(session_data) ==
    [ final_dir |-> "/",
      command_count |-> Len(session_data.command_history),
      commands_json |-> json_dumps(session_data.command_history) ]

\* The row log_session computes from session_data (lines 110-116); the peer
\* address and the two timestamps are left out.
session_row(session_data) ==
    [ final_dir |-> session_data.current_dir,
      command_count |-> Len(session_data.command_history),
      commands_json |-> json_dumps(session_data.command_history) ]

\* LogSession with a storage error leaving log_session and ending the thread
\* before the socket is closed.
LogSession_FailureRaises ==
    /\ pc = "finally"
    /\ LET session_data == [ current_dir |-> current_dir,
                             command_history |-> command_history ]
       IN  /\ log_calls' = Append(log_calls, session_data)
           /\ \E stored \in BOOLEAN :
                /\ db' = IF stored THEN Append(db, session_row(session_data)) ELSE db
                /\ pc' = IF stored THEN "close" ELSE "done"
    /\ UNCHANGED <<gemini, session_vars, command, output, local, sent, recvs,
                   sock_open, llm_vars>>

\* Lines 443-444 and log_session: one INSERT; an sqlite3.Error is printed
\* and swallowed.
LogSession ==
    /\ pc = "finally"
    /\ LET session_data == [ current_dir |-> current_dir,
                             command_history |-> command_history ]
       IN  /\ log_calls' = Append(log_calls, session_data)
           /\ \E stored \in BOOLEAN :
                db' = IF stored THEN Append(db, session_row(session_data)) ELSE db
    /\ pc' = "close"
    /\ UNCHANGED <<gemini, session_vars, command, output, local, sent, recvs,
                   sock_open, llm_vars>>

\* Lines 445-449: client_socket.close()
CloseSocket ==
    /\ pc = "close"
    /\ sock_open' = FALSE
    /\ pc' = "done"
    /\ UNCHANGED <<gemini, session_vars, command, output, local, sent, recvs,
                   log_calls, db, llm_vars>>

\* One session: the one thread takes its steps, the listener is left out.
Next ==
    \/ SendBanner /\ UNCHANGED server_vars
    \/ SendPrompt /\ UNCHANGED server_vars
    \/ RecvClosed /\ UNCHANGED server_vars
    \/ RecvError /\ UNCHANGED server_vars
    \/ RecvData /\ UNCHANGED server_vars
    \/ HandlingError /\ UNCHANGED server_vars
    \/ LLMRaise /\ UNCHANGED server_vars
    \/ LLMAnswer /\ UNCHANGED server_vars
    \/ LLMOldClient /\ UNCHANGED server_vars
    \/ LLMReturn /\ UNCHANGED server_vars
    \/ SendOutput /\ UNCHANGED server_vars
    \/ LogSession /\ UNCHANGED server_vars
    \/ CloseSocket /\ UNCHANGED server_vars

Spec == Init /\ [][Next]_vars

(***************************************************************************)
(* call_llm_for_command on its own: any max_retries up to the bound, from  *)
(* a session that has just received a command no local handler takes.      *)
(***************************************************************************)

\* The sessions the call starts from: a fresh one, or one that did `cd /home`.
SessionsBeforeCall ==
    { [ current_dir |-> "/", command_history |-> <<>>,
        sent |-> <<encode(Banner), encode(Prompt("/"))>>, recvs |-> 1 ],
      [ current_dir |-> "/home/", command_history |-> <<"cd /home">>,
        sent |-> <<encode(Banner), encode(Prompt("/")), encode(Prompt("/home/"))>>,
        recvs |-> 2 ] }

InitLLM ==
    /\ gemini \in {"new", "old"}
    /\ pc = "llm"
    /\ \E s \in SessionsBeforeCall :
        /\ current_dir = s.current_dir
        /\ command_history = s.command_history
        /\ sent = s.sent
        /\ recvs = s.recvs
    /\ command \in {"zzz", "CD"}
    /\ output = ""
    /\ local = None
    /\ sock_open = TRUE
    /\ log_calls = <<>>
    /\ db = <<>>
    /\ max_retries \in 1..MaxAttemptsBound
    /\ attempt = 1
    /\ backoff = InitialBackoff
    /\ delays = <<>>
    /\ requests = 0
    /\ text = ""
    /\ llm_out = None
    /\ listening = TRUE
    /\ others = EmptyBag

NextLLM ==
    \/ LLMRaise /\ UNCHANGED server_vars
    \/ LLMAnswer /\ UNCHANGED server_vars
    \/ LLMOldClient /\ UNCHANGED server_vars

\* Every backend call returns or raises and every sleep ends, so the thread
\* that runs the loop takes its next step.
SpecLLM == InitLLM /\ [][NextLLM]_vars /\ WF_vars(NextLLM)

(***************************************************************************)
(* start_honeypot: the accept loop and one thread per connection.  The     *)
(* session variables above are those of the thread that is running; the    *)
(* variable others keeps what every other thread holds while it waits.     *)
(* Threads have no name: others is a bag of what they hold.                *)
(***************************************************************************)

MaxSessions == 2

\* The commands the peers of concurrent sessions send, and the texts the
\* backend answers them with.
MultiCommands == {"", "cd /home", "pwd", "zzz"}
MultiTexts == {"", "ok"}

\* What the running thread holds.
Context ==
    [ pc |-> pc, current_dir |-> current_dir, command_history |-> command_history,
      command |-> command, output |-> output, local |-> local, sent |-> sent,
      recvs |-> recvs, sock_open |-> sock_open, log_calls |-> log_calls,
      max_retries |-> max_retries, attempt |-> attempt,
      backoff |-> backoff, delays |-> delays, requests |-> requests,
      text |-> text, llm_out |-> llm_out ]

\* The threads started so far: the running one and the waiting ones.
AllContexts == others (+) SetToBag({Context})

RECURSIVE SumRecvs(_)
SumRecvs(B) ==
    IF B = EmptyBag THEN 0
    ELSE LET c == CHOOSE x \in BagToSet(B) : TRUE
         IN  c.recvs + SumRecvs(B (-) SetToBag({c}))

\* Chunks received so far, over all sessions.
TotalRecvs == SumRecvs(AllContexts)

\* Lines 461-463: accept returns a connection and a daemon thread is started
\* for it; the thread has run nothing yet.
Accept ==
    /\ listening
    /\ BagCardinality(AllContexts) < MaxSessions
    /\ others' = others (+) SetToBag({FreshContext})
    /\ UNCHANGED <<gemini, pc, session_vars, command, output, local, io_vars,
                   llm_vars, listening>>

\* Switch with session_state shared by the threads instead of local to each.
Switch_SharedState(c) ==
    /\ listening
    /\ BagIn(c, others)
    /\ c.pc # "done"
    /\ others' = (others (-) SetToBag({c})) (+) SetToBag({Context})
    /\ pc' = c.pc
    /\ command' = c.command
    /\ output' = c.output
    /\ local' = c.local
    /\ sent' = c.sent
    /\ recvs' = c.recvs
    /\ sock_open' = c.sock_open
    /\ log_calls' = c.log_calls
    /\ max_retries' = c.max_retries
    /\ attempt' = c.attempt
    /\ backoff' = c.backoff
    /\ delays' = c.delays
    /\ requests' = c.requests
    /\ text' = c.text
    /\ llm_out' = c.llm_out
    /\ UNCHANGED <<gemini, session_vars, db, listening>>

\* The interpreter takes the running thread off and runs the waiting thread
\* that holds c: every local of handle_client (session_state, line 384, among
\* them) belongs to its thread; the client and the database file are the
\* process's.
Switch(c) ==
    /\ listening
    /\ BagIn(c, others)
    /\ c.pc # "done"
    /\ others' = (others (-) SetToBag({c})) (+) SetToBag({Context})
    /\ pc' = c.pc
    /\ current_dir' = c.current_dir
    /\ command_history' = c.command_history
    /\ command' = c.command
    /\ output' = c.output
    /\ local' = c.local
    /\ sent' = c.sent
    /\ recvs' = c.recvs
    /\ sock_open' = c.sock_open
    /\ log_calls' = c.log_calls
    /\ max_retries' = c.max_retries
    /\ attempt' = c.attempt
    /\ backoff' = c.backoff
    /\ delays' = c.delays
    /\ requests' = c.requests
    /\ text' = c.text
    /\ llm_out' = c.llm_out
    /\ UNCHANGED <<gemini, db, listening>>

\* Lines 464-472: KeyboardInterrupt, or accept or Thread.start raising, ends
\* the loop; start_honeypot returns, the process exits and its daemon threads
\* run no further.
Shutdown ==
    /\ listening
    /\ listening' = FALSE
    /\ UNCHANGED <<gemini, pc, session_vars, command, output, local, io_vars,
                   llm_vars, others>>

\* A step of the running thread, while the process lives.
SessionStep(A) ==
    /\ listening
    /\ A
    /\ UNCHANGED server_vars

\* A step that reads a chunk, within the bound on chunks over all sessions.
ReadStep(A) ==
    /\ TotalRecvs < MaxChunks
    /\ SessionStep(A)
    /\ command' \in MultiCommands

NextMulti ==
    \/ Accept
    \/ \E c \in BagToSet(others) : Switch(c)
    \/ Shutdown
    \/ SessionStep(SendBanner)
    \/ SessionStep(SendPrompt)
    \/ SessionStep(RecvClosed)
    \/ SessionStep(RecvError)
    \/ ReadStep(RecvData)
    \/ ReadStep(HandlingError)
    \/ SessionStep(LLMRaise)
    \/ SessionStep(LLMAnswer) /\ text' \in MultiTexts
    \/ SessionStep(LLMOldClient)
    \/ SessionStep(LLMReturn)
    \/ SessionStep(SendOutput)
    \/ SessionStep(LogSession)
    \/ SessionStep(CloseSocket)

SpecMulti == Init /\ [][NextMulti]_vars


(***************************************************************************)
(* handle_local_command on its own: commands with a path, resolved one     *)
(* after the other against the session state the one before left.          *)
(***************************************************************************)

MaxCalls == 2

\* The targets of cd, after the verb: relative, absolute, empty and `~`.
CdTargets ==
    { "home", "..", "../../../etc", "./x", "a/../b", "home/user/", "a//b",
      "~", "/home", "/", "//", "/xhome" }

\* The targets of ls.
LsTargets == { "~", "..", "/", "/home", "/xhome", "home", "x", "home/.." }

LocalCommands ==
    {"cd", "pwd", "ls"} \cup {"cd " \o t : t \in CdTargets}
                        \cup {"ls " \o t : t \in LsTargets}

\* A session that has sent its banner and first prompt and has no backend.
InitLocal ==
    /\ gemini = "none"
    /\ pc = "recv"
    /\ current_dir = "/"
    /\ command_history = <<>>
    /\ command = ""
    /\ output = ""
    /\ local = None
    /\ sent = <<encode(Banner), encode(Prompt("/"))>>
    /\ recvs = 0
    /\ sock_open = TRUE
    /\ log_calls = <<>>
    /\ db = <<>>
    /\ max_retries = DefaultMaxRetries
    /\ attempt = 0
    /\ backoff = InitialBackoff
    /\ delays = <<>>
    /\ requests = 0
    /\ text = ""
    /\ llm_out = None
    /\ listening = TRUE
    /\ others = EmptyBag

\* Line 347: one call of handle_local_command, with what it returns and the
\* session state it leaves.
LocalCall ==
    /\ pc = "recv"
    /\ Len(command_history) < MaxCalls
    /\ \E cmd \in LocalCommands :
        LET r == handle_local_command(cmd, current_dir, command_history)
        IN  /\ command' = cmd
            /\ local' = r.ret
            /\ current_dir' = r.current_dir
            /\ command_history' = r.command_history
            /\ output' = IF r.ret # None THEN r.ret[1] ELSE output
    /\ UNCHANGED <<gemini, pc, io_vars, llm_vars>>

NextLocal == LocalCall /\ UNCHANGED server_vars

SpecLocal == InitLocal /\ [][NextLocal]_vars

(***************************************************************************)
(* Properties                                                              *)
(***************************************************************************)

\* handle_client has left its loop (or never entered it).
Terminated == {"finally", "close", "done"}

\* C1: every session's log_session call happens exactly once, after the last
\* command was processed: none before finalization, one from then on, and
\* its row holds the history's length and the working directory as they are
\* when the session ends.
C1_LoggedExactlyOnce ==
    /\ Len(log_calls) <= 1
    /\ (pc \in {"close", "done"}) <=> (Len(log_calls) = 1)
    /\ Len(db) <= Len(log_calls)
    /\ Len(log_calls) = 1 =>
        /\ session_row(log_calls[1]).command_count = Len(command_history)
        /\ session_row(log_calls[1]).final_dir = current_dir
        /\ log_calls[1].command_history = command_history
        /\ \A i \in 1..Len(db) : db[i] = session_row(log_calls[1])

\* A session that handled two commands, ended and was logged.
C1_Witness ==
    /\ pc = "done"
    /\ command_history = <<"cd /home", "pwd">>
    /\ Len(log_calls) = 1
    /\ db = << [final_dir |-> "/home/", command_count |-> 2,
                commands_json |-> "[\"cd /home\", \"pwd\"]"] >>

\* A normalized absolute path: "/" itself, or segments that are neither
\* empty nor "." nor "..", each followed by a "/".
IsNormalizedDir(d) ==
    \/ d = "/"
    \/ LET comps == split_slash(d)
           n == Len(comps)
       IN  /\ n >= 3
           /\ comps[1] = ""
           /\ comps[n] = ""
           /\ \A i \in 2..(n - 1) : comps[i] \notin {"", ".", ".."}

\* C2: in every reachable state the working directory is a normalized
\* absolute path.
C2_DirAlwaysNormalized == IsNormalizedDir(current_dir)

\* resolve(d, p): where `cd p` leads from d.
resolve(d, p) == update_state("cd " \o p, d)

\* The command is a cd, in any letter case, followed by a path.
IsCdWithPath(cmd) ==
    LET parts == split_maxsplit1(cmd)
    IN  Len(parts) = 2 /\ lower(parts[1]) = "cd"

\* C3: a cd in any letter case followed by a path p moves the working
\* directory to resolve(d, p), outputs the empty string and appends the raw
\* command to the history.
C3_CdAnyCaseResolves ==
    [][ (pc = "recv" /\ pc' # "finally" /\ IsCdWithPath(command')) =>
            /\ current_dir' = resolve(current_dir, split_maxsplit1(command')[2])
            /\ local' = Some("")
            /\ command_history' = Append(command_history, command') ]_vars

\* C4: a command no local handler takes, with no backend configured or with
\* the backend failing, gets exactly the "command not found" line, and
\* resolving it changes neither the history nor the working directory.
C4_FallbackLeavesSession ==
    [][ /\ (pc = "recv" /\ pc' = "output" /\ local' = None) =>
                (output' = NotFound(command') /\ UNCHANGED session_vars)
        /\ (pc = "recv" /\ pc' = "llm") =>
                (local' = None /\ UNCHANGED session_vars)
        /\ (pc = "llm") => UNCHANGED session_vars
        /\ (pc = "llm_ret" /\ llm_out = None) =>
                (output' = NotFound(command) /\ pc' = "output"
                    /\ UNCHANGED session_vars) ]_vars

\* An unknown command after a cd, answered by the fallback.
C4_Witness ==
    /\ pc = "output"
    /\ local = None
    /\ command = "zzz"
    /\ output = "bash: zzz: command not found\n"
    /\ command_history = <<"cd /home">>
    /\ current_dir = "/home/"

\* The verb of a command: its first whitespace-delimited word, in lower case.
verb(cmd) == lower(split_maxsplit1(cmd)[1])

RecognisedVerb(v) ==
    \/ v \in {"cd", "pwd", "whoami", "id", "ls", "cat", "echo", "help", "--help", "-h"}
    \/ startswith(v, "uname")

\* command and local belong to the same resolved command.
CommandResolved == pc \in {"output", "prompt", "llm", "llm_ret", "recv"} /\ command # ""

\* C5: a command whose verb is none of the recognised verbs is not handled
\* locally.
C5_OtherVerbsUnhandled ==
    (CommandResolved /\ ~RecognisedVerb(verb(command))) => local = None

\* Each delay is at least double the one before it.
DelaysDouble == \A i \in 1..(Len(delays) - 1) : delays[i + 1] >= 2 * delays[i]

\* C6: when call_llm_for_command returns a text after k failed attempts, it
\* is the text of attempt k+1 (trimmed, with a newline), k+1 attempts were
\* made and exactly k delays occurred, each at least double the previous.
C6_DelayPerFailedAttempt ==
    (pc = "llm_ret" /\ llm_out # None) =>
        /\ llm_out = Some(strip(text) \o "\n")
        /\ requests = attempt
        /\ Len(delays) = requests - 1
        /\ DelaysDouble

\* C7: call_llm_for_command ends, makes at most max_retries attempts, never
\* sleeps after the last of them, raises nothing to its caller, and returns
\* None when no attempt brought a text.
C7_RetriesBounded ==
    /\ [](/\ pc \in {"llm", "llm_ret"}
          /\ attempt <= max_retries
          /\ requests <= attempt
          /\ Len(delays) <= attempt - 1
          /\ DelaysDouble
          /\ (pc = "llm_ret" /\ strip(text) = "") => llm_out = None
          /\ (pc = "llm_ret" /\ llm_out = None) =>
                (attempt = max_retries /\ Len(delays) <= max_retries - 1))
    /\ <>(pc = "llm_ret")

\* Three attempts raised: two delays, then None.
C7_Witness ==
    /\ pc = "llm_ret"
    /\ max_retries = 3
    /\ requests = 3
    /\ delays = <<500, 1000>>
    /\ llm_out = None

\* C8: the backend is asked only for a command the local handlers returned
\* None for, with a backend configured; a locally handled command, silent or
\* not, never reaches it.  On its success the raw command is appended to the
\* history once, and the text returned is not empty and ends with a newline.
C8_LocalFirstThenRemote ==
    [][ /\ (attempt' > 0) => (local' = None /\ gemini' # "none")
        /\ (local' # None) => (requests' = 0 /\ pc' \notin {"llm", "llm_ret"})
        /\ (pc \notin {"recv", "llm_ret"}) => command_history' = command_history
        /\ (pc = "llm_ret" /\ llm_out # None) =>
                /\ command_history' = Append(command_history, command)
                /\ output' = llm_out[1]
                /\ output' # ""
                /\ endswith(output', "\n")
                /\ pc' = "output" ]_vars

\* A command answered by the backend on its second attempt.
C8_Witness ==
    /\ pc = "output"
    /\ command = "zzz"
    /\ requests = 2
    /\ text = " two words \n"
    /\ output = "two words\n"
    /\ command_history = <<"cd /home", "zzz">>

\* The number of prompts among what was sent.
RECURSIVE PromptCount(_)
PromptCount(msgs) ==
    IF msgs = <<>> THEN 0
    ELSE (IF startswith(msgs[1], "user@server-dev-01:") /\ endswith(msgs[1], "$ ")
          THEN 1 ELSE 0) + PromptCount(Tail(msgs))

IsPrompt(msg) == startswith(msg, "user@server-dev-01:") /\ endswith(msg, "$ ")

\* C9: while every send succeeds, the peer has received the banner, the
\* prompt for "/", and for every chunk the output of its command (if not
\* empty) followed by one prompt for the working directory after that
\* command; an empty command and a silent one get the prompt alone.
C9_BannerThenOutputAndPrompt ==
    (pc = "recv") =>
        LET n == Len(sent)
        IN  /\ n >= 2
            /\ sent[1] = Banner
            /\ sent[2] = Prompt("/")
            /\ sent[n] = Prompt(current_dir)
            /\ PromptCount(sent) = recvs + 1
            /\ n <= 2 + 2 * recvs
            /\ (recvs > 0) =>
                 IF command # "" /\ output # ""
                 THEN sent[n - 1] = output /\ IsPrompt(sent[n - 2])
                 ELSE IsPrompt(sent[n - 1])
            /\ (command = "cd /home") =>
                 (sent[n] = "user@server-dev-01:/home/$ " /\ IsPrompt(sent[n - 1]))

\* cd /home, then pwd, with every send delivered.
C9_Witness ==
    /\ pc = "recv"
    /\ sent = << Banner, "user@server-dev-01:/$ ", "user@server-dev-01:/home/$ ",
                 "/home/\n", "user@server-dev-01:/home/$ " >>

\* C10: a read that returns nothing or raises, and a send that fails, end
\* the loop at once; from then on nothing is read, nothing is sent, the
\* working directory and the history stay as they are, and the session
\* never becomes active again.
C10_TerminatedIsFinal ==
    [][ /\ (pc \in Terminated) =>
                /\ pc' \in Terminated
                /\ sent' = sent
                /\ recvs' = recvs
                /\ UNCHANGED session_vars
        /\ (pc \in {"banner", "prompt", "output"} /\ sent' = sent) => pc' = "finally"
        /\ (pc \in {"banner", "prompt", "output"}) => UNCHANGED <<session_vars, recvs>>
        /\ (pc = "recv" /\ recvs' = recvs) => (pc' = "finally" /\ UNCHANGED session_vars)
      ]_vars

\* The send of pwd's output failed: nothing more was sent or read.
C10_Witness ==
    /\ pc = "done"
    /\ recvs = 1
    /\ command_history = <<"pwd">>
    /\ sent = <<Banner, Prompt("/")>>
    /\ ~sock_open

\* C11: a failing write of the session row is swallowed: the write is
\* attempted once and not again, the thread goes on to close the socket, and
\* on every path the socket is closed only after the write was attempted.
C11_StoreFailureSwallowed ==
    [][ /\ (pc = "finally") =>
                /\ Len(log_calls') = Len(log_calls) + 1
                /\ db' \in {db, Append(db, session_row(log_calls'[Len(log_calls')]))}
                /\ pc' = "close"
                /\ sock_open' = sock_open
        /\ (pc # "finally") => (log_calls' = log_calls /\ db' = db)
        /\ (pc = "close") => (pc' = "done" /\ ~sock_open')
        /\ (sock_open /\ ~sock_open') => (pc = "close" /\ Len(log_calls) = 1)
      ]_vars

\* The write failed, and the socket was closed all the same.
C11_Witness ==
    /\ pc = "done"
    /\ ~sock_open
    /\ Len(log_calls) = 1
    /\ db = <<>>
    /\ command_history = <<"cd /home", "pwd">>

\* C12: with several sessions at once, a step of one thread changes nothing
\* that a waiting thread holds: what waits is put away and taken up intact,
\* and a command is resolved against the state of the session that received
\* it.  A session that fails ends alone, the listener stops only by its own
\* step, and it can accept as long as it listens.
C12_SessionsIsolated ==
    /\ [][ /\ \/ others' = others
              \/ /\ others' = others (+) SetToBag({FreshContext})
                 /\ Context' = Context
              \/ /\ AllContexts' = AllContexts
                 /\ BagIn(Context', others)
                 /\ BagIn(Context, others')
           /\ (others' = others /\ session_vars' # session_vars) =>
                /\ pc \in {"recv", "llm_ret"}
                /\ pc = "recv" =>
                     LET r == handle_local_command(command', current_dir,
                                                   command_history)
                     IN  /\ current_dir' = r.current_dir
                         /\ command_history' = r.command_history
                /\ pc = "llm_ret" =>
                     /\ current_dir' = current_dir
                     /\ command_history' = Append(command_history, command)
           /\ (others' = others /\ pc \notin Terminated /\ pc' \in Terminated) =>
                listening' = listening
           /\ (listening' # listening) =>
                (others' = others /\ Context' = Context)
         ]_vars
    /\ [](listening /\ BagCardinality(AllContexts) < MaxSessions => ENABLED Accept)

\* One session failed while handling `cd /home`; the other one, asked for its
\* directory afterwards or in between, answers from its own.
C12_Witness ==
    /\ listening
    /\ pc = "output"
    /\ command = "pwd"
    /\ output = "/\n"
    /\ current_dir = "/"
    /\ \E c \in BagToSet(others) :
        /\ c.pc = "done"
        /\ c.command = "cd /home"
        /\ c.sent = <<encode(Banner), encode(Prompt("/"))>>

\* The segments of a path that name something.
Segs(p) == SelectSeq(split_slash(p), LAMBDA c : c \notin {"", "."})

RECURSIVE Walk(_, _)
\* Walking the segments from the root: `..` goes up one, and stays at the root.
Walk(segs, at) ==
    IF segs = <<>> THEN at
    ELSE IF Head(segs) = ".."
         THEN Walk(Tail(segs), IF at = <<>> THEN <<>> ELSE SubSeq(at, 1, Len(at) - 1))
    ELSE Walk(Tail(segs), Append(at, Head(segs)))

RECURSIVE Render(_)
\* The directory a walk ends at.
Render(at) == IF at = <<>> THEN "/" ELSE Render(SubSeq(at, 1, Len(at) - 1)) \o at[Len(at)] \o "/"

\* The target of a `cd target` command.
CdTarget(cmd) == split_maxsplit1(cmd)[2]

IsCdWithTarget(cmd) ==
    LET parts == split_maxsplit1(cmd)
    IN  Len(parts) = 2 /\ parts[1] = "cd"

\* C13: from a normalized directory d, `cd target` with a target that is not
\* empty and does not start with `/` ends in a normalized directory under
\* the root: the one reached by walking target's segments from d, each `..`
\* going up one segment and staying at `/` (`~` alone goes to `/`).
C13_RelativeCdStaysUnderRoot ==
    [][ (/\ IsCdWithTarget(command')
         /\ ~startswith(CdTarget(command'), "/")
         /\ IsNormalizedDir(current_dir)) =>
            /\ IsNormalizedDir(current_dir')
            /\ startswith(current_dir', "/")
            /\ current_dir' = resolve(current_dir, CdTarget(command'))
            /\ current_dir' =
                 IF CdTarget(command') = "~" THEN "/"
                 ELSE Render(Walk(Segs(current_dir) \o Segs(CdTarget(command')), <<>>))
      ]_vars

\* resolve("/home/", "../../../etc") == "/etc/"
C13_Witness ==
    /\ command_history = <<"cd /home", "cd ../../../etc">>
    /\ current_dir = "/etc/"

\* C14 as stated: after a cd, a cd with an empty target returns the directory
\* unchanged.
C14_EmptyTargetNoOp ==
    [][ ((command = "cd" \/ IsCdWithTarget(command)) /\ command' = "cd") =>
            current_dir' = current_dir ]_vars

\* C14, amended: after a cd, a cd with an empty target goes to `/`, as from
\* any directory; it leaves the directory as it was only when that is `/`.
C14_EmptyTargetGoesToRoot ==
    [][ ((command = "cd" \/ IsCdWithTarget(command)) /\ command' = "cd") =>
            /\ current_dir' = "/"
            /\ current_dir' = resolve(current_dir, "")
            /\ (current_dir' = current_dir) <=> (current_dir = "/") ]_vars

\* `cd /home`, then `cd`.
C14_Witness ==
    /\ command_history = <<"cd /home", "cd">>
    /\ current_dir = "/"

\* The last segment of a normalized directory is `home`.
IsHomeDir(d) ==
    LET segs == Segs(d)
    IN  segs # <<>> /\ segs[Len(segs)] = "home"

\* The listing of a directory, by the rule of the three listings.
Listing(d) ==
    IF d = "/" THEN RootListing
    ELSE IF IsHomeDir(d) THEN "user\n"
    ELSE "file.txt\n"

\* The directory an ls command lists, by the rules of cd.
LsResolved(cmd, d) ==
    LET parts == split_maxsplit1(cmd)
    IN  IF Len(parts) = 2 THEN resolve(d, parts[2]) ELSE d

\* C19: `ls` and `ls p` from a normalized directory d print the listing of
\* the directory that `cd p` resolves to (d without p): the root listing
\* for `/`, `user` for a home directory, `file.txt` otherwise; the same as
\* `cd p` followed by `ls` prints.
C19_LsListsResolvedTarget ==
    [][ (split_maxsplit1(command')[1] = "ls" /\ IsNormalizedDir(current_dir)) =>
            LET d == LsResolved(command', current_dir)
            IN  /\ output' = Listing(d)
                /\ output' = handle_local_command("ls", d, <<>>).ret[1] ]_vars

\* C15: the working directory changes only in the step that resolves a
\* command whose verb is cd; every other command, handled locally, answered
\* by the backend or not resolved, leaves it.  pwd outputs the directory
\* followed by a newline, and that is what the peer is sent.
C15_OnlyCdChangesDirectory ==
    [][ /\ (current_dir' # current_dir) =>
                (pc = "recv" /\ split_maxsplit1(command')[1] = "cd")
        /\ (pc = "recv" /\ pc' \notin Terminated /\ lower(command') = "pwd") =>
                /\ output' = current_dir \o "\n"
                /\ current_dir' = current_dir
                /\ pc' = "output"
        /\ (pc = "output" /\ lower(command) = "pwd" /\ sent' # sent) =>
                sent' = Append(sent, encode(current_dir \o "\n"))
      ]_vars

\* pwd in /home/ was answered with "/home/\n".
C15_Witness ==
    /\ pc = "prompt"
    /\ command = "pwd"
    /\ current_dir = "/home/"
    /\ sent = <<encode(Banner), encode(Prompt("/")), encode(Prompt("/home/")),
                encode("/home/\n")>>

\* What the peer can see and what the session keeps.
Visible == <<sent, current_dir, command_history, sock_open, log_calls, db>>

\* C16: a backend every attempt of which fails leaves the session where a
\* session with no backend is after the same command: nothing is sent and
\* the session state does not change while the attempts run, and when they
\* are over the output is the "command not found" line, the history and the
\* directory are as they were, and the output and the prompt are sent next.
C16_BackendFailureInvisible ==
    [][ /\ (pc = "recv" /\ pc' \notin Terminated /\ command' # "" /\ local' = None) =>
            /\ Visible' = Visible
            /\ IF gemini = "none"
               THEN output' = NotFound(command') /\ pc' = "output"
               ELSE pc' = "llm"
        /\ (pc = "llm") => (Visible' = Visible /\ command' = command /\ output' = output)
        /\ (pc = "llm_ret" /\ llm_out = None) =>
            /\ Visible' = Visible
            /\ command' = command
            /\ output' = NotFound(command)
            /\ pc' = "output"
      ]_vars

\* Three requests, all failed, and the peer has the line and the prompt.
C16_Witness ==
    /\ gemini = "new"
    /\ pc = "recv"
    /\ command = "zzz"
    /\ requests = 3
    /\ llm_out = None
    /\ sent = <<encode(Banner), encode(Prompt("/")), encode(NotFound("zzz")),
                encode(Prompt("/"))>>
    /\ command_history = <<>>
    /\ current_dir = "/"

\* C17: the history only grows, by one entry at a time and at most one per
\* chunk, and the entry is the command being handled; a chunk that is empty
\* once decoded and trimmed changes no session state and only gets the
\* prompt again.
C17_HistoryAppendOnly ==
    [][ /\ Len(command_history') \in {Len(command_history), Len(command_history) + 1}
        /\ SubSeq(command_history', 1, Len(command_history)) = command_history
        /\ (command_history' # command_history) =>
                /\ command_history' = Append(command_history, command')
                /\ command' # ""
                /\ \/ pc = "recv" /\ recvs' = recvs + 1 /\ local' # None
                   \/ pc = "llm_ret" /\ recvs' = recvs /\ local = None
        /\ Len(command_history') <= recvs'
        /\ (pc' \in {"llm", "llm_ret"}) => Len(command_history') < recvs'
        /\ (recvs' # recvs /\ command' = "") =>
                /\ session_vars' = session_vars
                /\ output' = output
                /\ sent' = sent
                /\ local' = None
                /\ attempt' = 0
                /\ pc' = "prompt"
      ]_vars

\* After `cd /home`, a chunk that is empty once decoded and trimmed.
C17_Witness ==
    /\ recvs = 2
    /\ command = ""
    /\ pc = "recv"
    /\ command_history = <<"cd /home">>
    /\ current_dir = "/home/"
    /\ sent = <<encode(Banner), encode(Prompt("/")), encode(Prompt("/home/")),
                encode(Prompt("/home/"))>>

\* C18: a chunk is read only when the session waits at its prompt: the
\* output of the command before, if it had any, and then the prompt for the
\* directory that command left have been sent, one prompt for every chunk
\* read so far and one for the start; the command read is resolved against
\* the directory and the history the command before left.
C18_HalfDuplex ==
    [][ (recvs' # recvs) =>
            /\ pc = "recv"
            /\ recvs' = recvs + 1
            /\ sent' = sent
            /\ PromptCount(sent) = recvs + 1
            /\ sent[Len(sent)] = encode(Prompt(current_dir))
            /\ (recvs > 0 /\ command # "" /\ output # "") =>
                    sent[Len(sent) - 1] = encode(output)
            /\ (command' # "" /\ pc' \notin Terminated) =>
                    LET r == handle_local_command(command', current_dir, command_history)
                    IN  /\ local' = r.ret
                        /\ current_dir' = r.current_dir
                        /\ command_history' = r.command_history
      ]_vars

\* The second command, read after the prompt for /home/, answered from there.
C18_Witness ==
    /\ recvs = 2
    /\ pc = "output"
    /\ command = "pwd"
    /\ output = "/home/\n"
    /\ command_history = <<"cd /home", "pwd">>
    /\ sent = <<encode(Banner), encode(Prompt("/")), encode(Prompt("/home/"))>>

\* C20: a command handled locally is applied to the session state in the
\* step that resolves it, before anything is sent for it; a send that fails
\* leaves the session state as it is, with the command last in the history
\* if it was resolved; and the row written holds the directory, the count
\* and the commands as they are then.
C20_AppliedBeforeSend ==
    /\ [][ /\ (pc = "recv" /\ pc' \notin Terminated /\ local' # None) =>
                /\ current_dir' = update_state(command', current_dir)
                /\ command_history' = Append(command_history, command')
                /\ sent' = sent
           /\ (pc \in {"output", "prompt"} /\ pc' = "finally") =>
                /\ session_vars' = session_vars
                /\ sent' = sent
                /\ (command # "" /\ (local # None \/ llm_out # None)) =>
                        /\ command_history # <<>>
                        /\ command_history[Len(command_history)] = command
           /\ (pc \in Terminated) => session_vars' = session_vars
           /\ (db' # db) =>
                db' = Append(db, [ final_dir |-> current_dir,
                                   command_count |-> Len(command_history),
                                   commands_json |-> json_dumps(command_history) ])
         ]_vars

\* `cd /home` was applied, its prompt could not be sent, and the row has it.
C20_Witness ==
    /\ pc = "done"
    /\ command = "cd /home"
    /\ sent = <<encode(Banner), encode(Prompt("/"))>>
    /\ db = << [ final_dir |-> "/home/", command_count |-> 1,
                 commands_json |-> "[\"cd /home\"]" ] >>
====
